---- MODULE Spec2Model ----
(***************************************************************************)
(* A model of transcribe.py: media discovery (collect_media_paths), the    *)
(* per-file pipeline (ensure_wav -> engine -> write_srt), the command-line *)
(* batch driver (main) and the drag-and-drop session with its worker       *)
(* thread (launch_drag_and_drop_gui).                                      *)
(*                                                                         *)
(* A path string is modelled already split as <<dir, stem, ext>>: dir is   *)
(* the sequence of directory names, stem the file name without its last    *)
(* extension, ext that extension with its dot ("" when there is none).     *)
(* Two paths are the same string iff the triples are equal.                *)
(***************************************************************************)
EXTENDS Integers, Sequences, FiniteSets, TLC

\* ------------------------------------------------------------------ bounds
MaxInputs == 2      \* command-line inputs of one run
MaxDrops == 1       \* drop events of one interactive session
MaxCloses == 1      \* close requests of one interactive session
MaxFaults == 1      \* failures of ffmpeg, the engine and the subtitle write in one run
MaxCollectInputs == 2  \* inputs of one collect_media_paths call (SpecCollect)
MaxSessionDrops == 2   \* drop events of one session (SpecSession)

\* ------------------------------------------------------------- file system
dA_mp3 == <<(<<"d">>), "a", ".mp3">>
dA_WAV == <<(<<"d">>), "a", ".WAV">>
dA_srt == <<(<<"d">>), "a", ".srt">>
dB_wav == <<(<<"d">>), "b", ".wav">>
dB_srt == <<(<<"d">>), "b", ".srt">>
dNotes == <<(<<"d">>), "notes", ".txt">>
dsC_mp3 == <<(<<"d", "s">>), "c", ".mp3">>
dsC_srt == <<(<<"d", "s">>), "c", ".srt">>
Nope == <<(<<>>), "nope", ".mp3">>

DirD == <<(<<>>), "d", "">>
DirS == <<(<<"d">>), "s", "">>
DirLocked == <<(<<>>), "locked", "">>

\* The order in which a directory listing returns names (stable for a snapshot).
FileOrder == <<dA_mp3, dA_WAV, dA_srt, dB_wav, dB_srt, dNotes, dsC_mp3, dsC_srt>>
DirOrder == <<DirD, DirS, DirLocked>>

Range(s) == {s[i] : i \in 1..Len(s)}
FileUniverse == Range(FileOrder)
Dirs == Range(DirOrder)
\* Directories whose listing the process is not permitted to read.
Unreadable == {DirLocked}

MEDIA_EXTENSIONS ==
    {".aac", ".aiff", ".flac", ".m4a", ".mka", ".mkv", ".mov", ".mp3", ".mp4",
     ".ogg", ".opus", ".wav", ".webm"}

\* str.lower() on the extensions of the universe.
lower(s) ==
    CASE s = ".WAV" -> ".wav"
      [] s = ".MP3" -> ".mp3"
      [] s = ".SRT" -> ".srt"
      [] OTHER -> s

\* os.path.splitext: <<root, ext>>.
splitext(p) == << <<p[1], p[2]>>, p[3] >>
\* root + ext
PlusExt(root, ext) == <<root[1], root[2], ext>>
\* os.path.join(directory, name)
InDir(directory) == Append(directory[1], directory[2])

exists(f, p) == p \in f \/ p \in Dirs
isdir(p) == p \in Dirs

is_media_file(p) == lower(splitext(p)[2]) \in MEDIA_EXTENSIONS

has_adjacent_srt(f, p) == exists(f, PlusExt(splitext(p)[1], ".srt"))

\* ---------------------------------------------------------------- discovery
Files(f, directory) ==
    SelectSeq(FileOrder, LAMBDA q : q \in f /\ q[1] = InDir(directory))
SubDirs(directory) ==
    SelectSeq(DirOrder, LAMBDA q : q[1] = InDir(directory))

RECURSIVE Flatten(_)
Flatten(ss) == IF ss = <<>> THEN <<>> ELSE Head(ss) \o Flatten(Tail(ss))

\* os.walk(directory): top-down, the files of a directory before its
\* subdirectories; a directory that cannot be listed is skipped (onerror=None).
RECURSIVE walk(_, _)
walk(f, directory) ==
    IF directory \in Unreadable THEN <<>>
    ELSE Files(f, directory)
         \o Flatten([i \in 1..Len(SubDirs(directory)) |->
                        walk(f, SubDirs(directory)[i])])

\* _iter_directory_files: [err, files]; os.scandir raises on an unreadable
\* directory, os.walk does not.
_iter_directory_files(f, directory, recursive) ==
    IF recursive THEN [err |-> "none", files |-> walk(f, directory)]
    ELSE IF directory \in Unreadable
         THEN [err |-> "PermissionError", files |-> <<>>]
         ELSE [err |-> "none", files |-> Files(f, directory)]

\* One loop state of collect_media_paths.
Acc(discovered, seen) == [discovered |-> discovered, seen |-> seen]

AddIfNewAlways(acc, p) ==
    Acc(Append(acc.discovered, p), acc.seen \cup {p})
\* "if p not in seen: seen.add(p); discovered.append(p)"
AddIfNew(acc, p) ==
    IF p \notin acc.seen
    THEN Acc(Append(acc.discovered, p), acc.seen \cup {p})
    ELSE acc

\* The body of the loop over a directory's candidates.
ScanCandidate(f, acc, candidate) ==
    IF ~is_media_file(candidate) \/ has_adjacent_srt(f, candidate)
    THEN acc
    ELSE AddIfNew(acc, candidate)

RECURSIVE ScanDirectory(_, _, _)
ScanDirectory(f, acc, candidates) ==
    IF candidates = <<>> THEN acc
    ELSE ScanDirectory(f, ScanCandidate(f, acc, Head(candidates)), Tail(candidates))

DirectInputNoSrtCheck(f, acc, original) ==
    IF ~is_media_file(original) THEN [err |-> "ValueError", acc |-> acc]
    ELSE [err |-> "none", acc |-> AddIfNew(acc, original)]
\* The body of the loop over the inputs, for an input that is not a directory.
DirectInput(f, acc, original) ==
    IF ~is_media_file(original) THEN [err |-> "ValueError", acc |-> acc]
    ELSE IF has_adjacent_srt(f, original) THEN [err |-> "none", acc |-> acc]
    ELSE [err |-> "none", acc |-> AddIfNew(acc, original)]

RECURSIVE CollectLoop(_, _, _, _)
CollectLoop(f, acc, inputs, recursive) ==
    IF inputs = <<>> THEN [err |-> "none", paths |-> acc.discovered]
    ELSE LET original == Head(inputs) IN
         IF ~exists(f, original)
         THEN [err |-> "FileNotFoundError", paths |-> <<>>]
         ELSE IF isdir(original)
         THEN LET it == _iter_directory_files(f, original, recursive) IN
              IF it.err # "none" THEN [err |-> it.err, paths |-> <<>>]
              ELSE CollectLoop(f, ScanDirectory(f, acc, it.files),
                               Tail(inputs), recursive)
         ELSE LET r == DirectInput(f, acc, original) IN
              IF r.err # "none" THEN [err |-> r.err, paths |-> <<>>]
              ELSE CollectLoop(f, r.acc, Tail(inputs), recursive)

\* collect_media_paths(inputs, recursive) on the file-system snapshot f:
\* [err |-> "none", paths |-> the list] or the exception raised.
collect_media_paths(f, inputs, recursive) ==
    CollectLoop(f, Acc(<<>>, {}), inputs, recursive)


\* ---------------------------------------------------------- subtitle format
\* A string the writer produces is modelled as the sequence of its characters.
\* A time in seconds is modelled as [whole, micros, lean]: whole seconds, the
\* fraction in millionths, and on which side of the exact value the double
\* computation (seconds - int(seconds)) * 1000 lands (-1 below, 0 exact,
\* 1 above), which decides round() when the fraction lies halfway between two
\* milliseconds.
Time(whole, micros, lean) == [whole |-> whole, micros |-> micros, lean |-> lean]

Digit == <<"0", "1", "2", "3", "4", "5", "6", "7", "8", "9">>

\* str(n) for n >= 0
RECURSIVE Decimal(_)
Decimal(n) ==
    IF n < 10 THEN <<Digit[n + 1]>>
    ELSE Append(Decimal(n \div 10), Digit[(n % 10) + 1])

\* The format specification 0w: zeros on the left up to a width of at least w;
\* a longer number is not cut.
RECURSIVE ZeroPad(_, _)
ZeroPad(str, w) == IF Len(str) >= w THEN str ELSE ZeroPad(<<"0">> \o str, w)

\* int(round(x)) for the x the double computation yields: to the nearest
\* integer, and halfway to the neighbour the double leans to, or to the even
\* one when the double is exact.
RoundMillis(micros, lean) ==
    LET lo == micros \div 1000
        rest == micros % 1000 IN
    IF rest < 500 THEN lo
    ELSE IF rest > 500 THEN lo + 1
    ELSE IF lean > 0 THEN lo + 1
    ELSE IF lean < 0 THEN lo
    ELSE IF lo % 2 = 0 THEN lo ELSE lo + 1

\* Lines 39-43.
format_srt_timestamp(seconds) ==
    LET hours == seconds.whole \div 3600
        minutes == (seconds.whole % 3600) \div 60
        secs == seconds.whole % 60
        milliseconds == RoundMillis(seconds.micros, seconds.lean) IN
    ZeroPad(Decimal(hours), 2) \o <<":">> \o ZeroPad(Decimal(minutes), 2)
        \o <<":">> \o ZeroPad(Decimal(secs), 2) \o <<",">>
        \o ZeroPad(Decimal(milliseconds), 3)

\* A segment the engine returns.
Segment(start, end, transcription) ==
    [boundaries |-> <<start, end>>, transcription |-> transcription]

\* Lines 54-58: the three srt_file.write calls for one segment.
BlockWrites(idx, seg) ==
    << Decimal(idx) \o <<"\n">>,
       format_srt_timestamp(seg.boundaries[1]) \o <<" ", "-", "-", ">", " ">>
           \o format_srt_timestamp(seg.boundaries[2]) \o <<"\n">>,
       seg.transcription \o <<"\n", "\n">> >>

\* Lines 51-58: the loop over enumerate(segments, start=idx).
RECURSIVE Enumerate(_, _)
Enumerate(segments, idx) ==
    IF segments = <<>> THEN <<>>
    ELSE BlockWrites(idx, Head(segments)) \o Enumerate(Tail(segments), idx + 1)

write_srt_from_zero(segments) == Enumerate(segments, 0)
\* write_srt with open() succeeding: the strings written to the file, in
\* order; the file holds their concatenation.
write_srt(segments) == Enumerate(segments, 1)

\* -------------------------------------------------------------------- state
VARIABLES
    args,          \* the parsed command line: inputs, recursive, ignore_errors, gui, output
    fs,            \* the regular files that exist (media, subtitles, others)
    temps,         \* the temporary audio files that exist: [name, src]
    mpc,           \* position of the main thread (main, then the UI loop)
    discovery,     \* outcome of main's collect_media_paths call: [err, paths]
    model_loaded,  \* load_asr_model has returned the engine
    bi,            \* number of batch files main has started
    t,             \* per thread, the frame of its transcribe_audio_file call
    task_queue,    \* queue.Queue of WorkItems and sentinels
    stop_event,    \* threading.Event
    destroy_pending, \* root.after(100, root.destroy) is scheduled
    wpc,           \* position of the worker thread
    w_item,        \* the WorkItem the worker holds
    collected,     \* process_inputs: the list being iterated
    ci,            \* process_inputs: index of the current file in collected
    enq,           \* number of queue.put calls so far (numbers the items)
    n_drops,       \* drop events so far
    n_closes,      \* close requests so far
    ui_log,        \* reports the UI task itself sent to the sink (on_drop)
    log,           \* history of the pipeline's effects and of the worker's reports
    result         \* outcome of a direct call of a pure function (SpecCollect)

vars == <<args, fs, temps, mpc, discovery, model_loaded, bi, t, task_queue,
          stop_event, destroy_pending, wpc, w_item, collected, ci, enq,
          n_drops, n_closes, ui_log, log, result>>

Threads == {"main", "worker"}

NoOutput == <<(<<>>), "", "">>
OutPath == <<(<<>>), "out", ".srt">>

Pending == [err |-> "pending", paths |-> <<>>]
NoItem == [id |-> 0, none |-> TRUE, files |-> <<>>]
WorkItem(id, files) == [id |-> id, none |-> FALSE, files |-> files]
Sentinel(id) == [id |-> id, none |-> TRUE, files |-> <<>>]

NoWav == [temp |-> FALSE, path |-> NoOutput, name |-> 0]
NoRet == [kind |-> "none", path |-> NoOutput, exc |-> ""]
RetPath(p) == [kind |-> "path", path |-> p, exc |-> ""]
RetNone == [kind |-> "None", path |-> NoOutput, exc |-> ""]
Raise(exc) == [kind |-> "raise", path |-> NoOutput, exc |-> exc]

IdleFrame ==
    [pc |-> "idle", path |-> NoOutput, override |-> NoOutput, wav |-> NoWav,
     ret |-> NoRet, item |-> 0, idx |-> 0]
\* transcribe_audio_file(model, audio_path, args, output_override) entered.
CallFrame(path, override, item, idx) ==
    [pc |-> "ensure_wav", path |-> path, override |-> override, wav |-> NoWav,
     ret |-> NoRet, item |-> item, idx |-> idx]

\* Raw paths a user passes on the command line or drops on the window.
RawPaths == {DirD, dA_mp3, dNotes, Nope, DirLocked}

RECURSIVE SeqsUpTo(_, _)
SeqsUpTo(S, n) ==
    IF n = 0 THEN {<<>>}
    ELSE LET shorter == SeqsUpTo(S, n - 1) IN
         shorter \cup {Append(s, x) : s \in {q \in shorter : Len(q) = n - 1}, x \in S}

\* The command lines of a batch run: every list of at most MaxInputs raw paths.
BatchInputs == SeqsUpTo(RawPaths, MaxInputs)
\* The inputs given on the command line together with --gui.
GuiInputs == {<<>>, <<DirD>>, <<dNotes>>}
\* The lists root.tk.splitlist yields for one drop event.
DropChoices == {<<>>, <<DirD>>, <<dNotes>>, <<Nope>>, <<DirLocked>>}

\* The file-system snapshots a run starts from.
InitialSnapshots == {{dA_mp3, dA_WAV, dNotes, dsC_mp3}}

Init ==
    /\ args \in [inputs : BatchInputs \cup GuiInputs, recursive : BOOLEAN,
                 ignore_errors : BOOLEAN, gui : BOOLEAN,
                 output : {NoOutput, OutPath}]
    /\ args.gui => args.inputs \in GuiInputs
    /\ fs \in InitialSnapshots
    /\ temps = {}
    /\ mpc = "start"
    /\ discovery = Pending
    /\ model_loaded = FALSE
    /\ bi = 0
    /\ t = [th \in Threads |-> IdleFrame]
    /\ task_queue = <<>>
    /\ stop_event = FALSE
    /\ destroy_pending = FALSE
    /\ wpc = "none"
    /\ w_item = NoItem
    /\ collected = <<>>
    /\ ci = 0
    /\ enq = 0
    /\ n_drops = 0
    /\ n_closes = 0
    /\ ui_log = <<>>
    /\ log = <<>>
    /\ result = Pending


\* ------------------------------------------------------------------ history
\* One entry of log: what happened (ev), in which thread, for which WorkItem
\* (0 in a batch run), which file of the list (idx), its media path, the path
\* written or reported (out), a detail (info), and for a write whether the
\* file it opened existed already.
Ev(ev, th, item, idx, path, out, info) ==
    [ev |-> ev, th |-> th, item |-> item, idx |-> idx, path |-> path,
     out |-> out, info |-> info, existed |-> FALSE]
FrameEv(ev, th, out, info) ==
    Ev(ev, th, t[th].item, t[th].idx, t[th].path, out, info)

\* The failures the environment has injected so far.
FaultInfos == {"no_ffmpeg", "ffmpeg_failed", "failed", "open_failed", "write_failed"}
Faults == Cardinality({i \in DOMAIN log : log[i].info \in FaultInfos})
MayFail == Faults < MaxFaults

\* ------------------------------------------------- transcribe_audio_file
\* The thread th is inside its transcribe_audio_file call.
InCall(th) == IF th = "main" THEN mpc = "in_call" ELSE wpc = "in_call"

\* tempfile.NamedTemporaryFile: a name no existing temporary file has.
FreshTemp == CHOOSE n \in 1..(Cardinality(temps) + 1) :
                 \A x \in temps : x.name # n

EnsureOutcomes == {"ok", "no_ffmpeg", "ffmpeg_failed"}

\* path.lower().endswith(".wav")
IsWav(path) == lower(path[3]) = ".wav"

\* Line 157, ensure_wav(audio_path): a .wav input is passed through; otherwise
\* a temporary file is created and ffmpeg run on it. ffmpeg missing raises
\* before the file is created, ffmpeg failing raises after.
T_EnsureWav(th) ==
    /\ InCall(th)
    /\ t[th].pc = "ensure_wav"
    /\ IF IsWav(t[th].path)
       THEN /\ t' = [t EXCEPT ![th].pc = "engine_call",
                              ![th].wav = [temp |-> FALSE, path |-> t[th].path,
                                           name |-> 0]]
            /\ log' = Append(log, FrameEv("ensure_wav", th, NoOutput, "wav"))
            /\ UNCHANGED temps
       ELSE \E outcome \in {o \in EnsureOutcomes : o = "ok" \/ MayFail} :
            CASE outcome = "no_ffmpeg" ->
                   /\ t' = [t EXCEPT ![th].pc = "returned",
                                     ![th].ret = Raise("RuntimeError")]
                   /\ log' = Append(log, FrameEv("ensure_wav", th, NoOutput, "no_ffmpeg"))
                   /\ UNCHANGED temps
              [] outcome = "ffmpeg_failed" ->
                   /\ temps' = temps \cup {[name |-> FreshTemp, src |-> t[th].path]}
                   /\ t' = [t EXCEPT ![th].pc = "returned",
                                     ![th].ret = Raise("CalledProcessError")]
                   /\ log' = Append(log, FrameEv("ensure_wav", th, NoOutput, "ffmpeg_failed"))
              [] outcome = "ok" ->
                   /\ temps' = temps \cup {[name |-> FreshTemp, src |-> t[th].path]}
                   /\ t' = [t EXCEPT ![th].pc = "engine_call",
                                     ![th].wav = [temp |-> TRUE, path |-> NoOutput,
                                                  name |-> FreshTemp]]
                   /\ log' = Append(log, FrameEv("ensure_wav", th, NoOutput, "converted"))
    /\ UNCHANGED <<args, fs, mpc, discovery, model_loaded, bi, task_queue,
                   stop_event, destroy_pending, wpc, w_item, collected, ci, enq,
                   n_drops, n_closes, ui_log, result>>

\* Line 159: model.transcribe_longform is entered; the call is in flight.
T_EngineCall(th) ==
    /\ InCall(th)
    /\ t[th].pc = "engine_call"
    /\ t' = [t EXCEPT ![th].pc = "engine"]
    /\ log' = Append(log, FrameEv("engine_call", th, NoOutput, ""))
    /\ UNCHANGED <<args, fs, temps, mpc, discovery, model_loaded, bi, task_queue,
                   stop_event, destroy_pending, wpc, w_item, collected, ci, enq,
                   n_drops, n_closes, ui_log, result>>

EngineFailureAlwaysRaises(ignore_errors) == Raise("EngineError")
\* Lines 165-169: what the except clause does with an engine failure.
EngineFailure(ignore_errors) ==
    IF ignore_errors THEN RetNone ELSE Raise("EngineError")

\* os.remove(wav_path): the temporary files and the regular files left.
Remove(wav) ==
    [temps |-> {x \in temps : x.name # wav.name}, fs |-> fs \ {wav.path}]

FinallyAlwaysRemoves(th) == Remove(t[th].wav)
\* Lines 170-172, the finally clause: "if is_temp: os.remove(wav_path)".
Finally(th) ==
    IF t[th].wav.temp THEN Remove(t[th].wav) ELSE [temps |-> temps, fs |-> fs]

\* Lines 159-172: the engine call returns the segments or fails; the finally
\* clause runs on both ways out.
T_EngineReturn(th) ==
    /\ InCall(th)
    /\ t[th].pc = "engine"
    /\ temps' = Finally(th).temps
    /\ fs' = Finally(th).fs
    /\ \E ok \in {b \in BOOLEAN : b \/ MayFail} :
          IF ok
          THEN /\ t' = [t EXCEPT ![th].pc = "write_srt"]
               /\ log' = Append(log, FrameEv("engine_ret", th, NoOutput, "ok"))
          ELSE /\ t' = [t EXCEPT ![th].pc = "returned",
                                 ![th].ret = EngineFailure(args.ignore_errors)]
               /\ log' = Append(log, FrameEv("engine_ret", th, NoOutput, "failed"))
    /\ UNCHANGED <<args, mpc, discovery, model_loaded, bi, task_queue,
                   stop_event, destroy_pending, wpc, w_item, collected, ci, enq,
                   n_drops, n_closes, ui_log, result>>

OutputPathIgnoresOverride(path, override) == PlusExt(splitext(path)[1], ".srt")
\* Line 174: output_override or splitext(audio_path)[0] + ".srt"
OutputPath(path, override) ==
    IF override # NoOutput THEN override ELSE PlusExt(splitext(path)[1], ".srt")

WriteOutcomes == {"ok", "open_failed", "write_failed"}

\* Lines 174-177: write_srt creates or overwrites the subtitle file. open()
\* failing leaves the file system as it was; a failure while writing leaves a
\* truncated file.
T_WriteSrt(th) ==
    /\ InCall(th)
    /\ t[th].pc = "write_srt"
    /\ LET out == OutputPath(t[th].path, t[th].override) IN
       \E outcome \in {o \in WriteOutcomes : o = "ok" \/ MayFail} :
          /\ fs' = IF outcome = "open_failed" THEN fs ELSE fs \cup {out}
          /\ t' = [t EXCEPT ![th].pc = "returned",
                            ![th].ret = IF outcome = "ok" THEN RetPath(out)
                                        ELSE Raise("OSError")]
          /\ log' = Append(log, [FrameEv("write_srt", th, out, outcome)
                                     EXCEPT !.existed = out \in fs])
    /\ UNCHANGED <<args, temps, mpc, discovery, model_loaded, bi, task_queue,
                   stop_event, destroy_pending, wpc, w_item, collected, ci, enq,
                   n_drops, n_closes, ui_log, result>>


\* ----------------------------------------------------------------- main()
DiscoveryErrorIgnored(err) ==
    IF err = "none" \/ err = "ValueError" THEN "validate" ELSE "usage_error"
\* Lines 440-443: where main goes after collect_media_paths. FileNotFoundError
\* and ValueError end in parser.error (exit status 2); any other exception is
\* not caught and ends the process with a traceback.
AfterDiscovery(err) ==
    CASE err = "none" -> "validate"
      [] err \in {"FileNotFoundError", "ValueError"} -> "usage_error"
      [] OTHER -> "traceback"

\* Lines 431-443: no input at all outside --gui is a usage error; otherwise
\* discovery runs on the combined inputs.
MainDiscover ==
    /\ mpc = "start"
    /\ IF args.inputs = <<>> /\ ~args.gui
       THEN /\ mpc' = "usage_error"
            /\ discovery' = [err |-> "no_inputs", paths |-> <<>>]
       ELSE LET r == collect_media_paths(fs, args.inputs, args.recursive) IN
            /\ discovery' = r
            /\ mpc' = AfterDiscovery(r.err)
    /\ UNCHANGED <<args, fs, temps, model_loaded, bi, t, task_queue, stop_event,
                   destroy_pending, wpc, w_item, collected, ci, enq, n_drops,
                   n_closes, ui_log, log, result>>

ArgsRejectedNoCountCheck ==
    \/ discovery.paths = <<>> /\ ~args.gui
    \/ args.gui /\ args.output # NoOutput
\* Lines 445-457: the checks between discovery and loading the engine.
ArgsRejected ==
    \/ discovery.paths = <<>> /\ ~args.gui
    \/ args.gui /\ args.output # NoOutput
    \/ args.output # NoOutput /\ Len(discovery.paths) > 1

MainValidate ==
    /\ mpc = "validate"
    /\ mpc' = IF ArgsRejected THEN "usage_error" ELSE "load"
    /\ UNCHANGED <<args, fs, temps, discovery, model_loaded, bi, t, task_queue,
                   stop_event, destroy_pending, wpc, w_item, collected, ci, enq,
                   n_drops, n_closes, ui_log, log, result>>

\* Lines 462-467: load_asr_model returns the engine or raises RuntimeError
\* (a missing package), which ends in parser.error.
MainLoadModel ==
    /\ mpc = "load"
    /\ \E ok \in BOOLEAN :
          IF ok
          THEN /\ model_loaded' = TRUE
               /\ mpc' = IF args.gui THEN "launch" ELSE "batch"
          ELSE /\ model_loaded' = FALSE
               /\ mpc' = "usage_error"
    /\ UNCHANGED <<args, fs, temps, discovery, bi, t, task_queue, stop_event,
                   destroy_pending, wpc, w_item, collected, ci, enq, n_drops,
                   n_closes, ui_log, log, result>>

MainBatchNextRevalidates ==
    /\ mpc = "batch"
    /\ IF bi < Len(discovery.paths)
       THEN /\ bi' = bi + 1
            /\ IF has_adjacent_srt(fs, discovery.paths[bi + 1])
               THEN UNCHANGED <<t, mpc>>
               ELSE /\ t' = [t EXCEPT !["main"] =
                              CallFrame(discovery.paths[bi + 1], args.output, 0, bi + 1)]
                    /\ mpc' = "in_call"
       ELSE /\ mpc' = "exit0"
            /\ UNCHANGED <<bi, t>>
    /\ UNCHANGED <<args, fs, temps, discovery, model_loaded, task_queue,
                   stop_event, destroy_pending, wpc, w_item, collected, ci, enq,
                   n_drops, n_closes, ui_log, log, result>>
\* Lines 474-477: the batch loop calls transcribe_audio_file on the next
\* path, or ends when the list is exhausted.
MainBatchNext ==
    /\ mpc = "batch"
    /\ IF bi < Len(discovery.paths)
       THEN /\ bi' = bi + 1
            /\ t' = [t EXCEPT !["main"] =
                        CallFrame(discovery.paths[bi + 1], args.output, 0, bi + 1)]
            /\ mpc' = "in_call"
       ELSE /\ mpc' = "exit0"
            /\ UNCHANGED <<bi, t>>
    /\ UNCHANGED <<args, fs, temps, discovery, model_loaded, task_queue,
                   stop_event, destroy_pending, wpc, w_item, collected, ci, enq,
                   n_drops, n_closes, ui_log, log, result>>

\* Lines 475-481: the call returned or raised. An exception is not caught in
\* main and ends the run; None with ignore_errors off breaks the loop.
AfterBatchCall(ret, ignore_errors) ==
    CASE ret.kind = "raise" -> "aborted"
      [] ret.kind = "None" /\ ~ignore_errors -> "exit0"
      [] OTHER -> "batch"

MainBatchReturn ==
    /\ mpc = "in_call"
    /\ t["main"].pc = "returned"
    /\ mpc' = AfterBatchCall(t["main"].ret, args.ignore_errors)
    /\ log' = Append(log, FrameEv("return", "main", t["main"].ret.path,
                                  t["main"].ret.kind))
    /\ t' = [t EXCEPT !["main"] = IdleFrame]
    /\ UNCHANGED <<args, fs, temps, discovery, model_loaded, bi, task_queue,
                   stop_event, destroy_pending, wpc, w_item, collected, ci, enq,
                   n_drops, n_closes, ui_log, result>>


\* ------------------------------------------------ launch_drag_and_drop_gui
\* queue.Queue.put
QueuePut(q, item) == Append(q, item)

QueueGetLast(q) == [item |-> q[Len(q)], rest |-> SubSeq(q, 1, Len(q) - 1)]
\* queue.Queue.get on a non-empty queue: first in, first out.
QueueGet(q) == [item |-> Head(q), rest |-> Tail(q)]

\* Lines 467-471 and 180-305: the session is set up (a missing Tkinter or
\* tkinterdnd2 raises RuntimeError, which ends in parser.error), the worker
\* thread is started, the initial inputs are enqueued as one WorkItem, and the
\* main thread enters the UI loop.
MainLaunchGui ==
    /\ mpc = "launch"
    /\ \E ok \in BOOLEAN :
          IF ok
          THEN /\ mpc' = "mainloop"
               /\ wpc' = "loop"
               /\ IF discovery.paths # <<>>
                  THEN /\ task_queue' = QueuePut(task_queue, WorkItem(enq + 1, discovery.paths))
                       /\ enq' = enq + 1
                  ELSE UNCHANGED <<task_queue, enq>>
          ELSE /\ mpc' = "usage_error"
               /\ UNCHANGED <<wpc, task_queue, enq>>
    /\ UNCHANGED <<args, fs, temps, discovery, model_loaded, bi, t, stop_event,
                   destroy_pending, w_item, collected, ci, n_drops, n_closes,
                   ui_log, log, result>>

\* Lines 289-293, on_drop in the UI task: a non-empty list of dropped paths is
\* reported and enqueued as one WorkItem; max bounds the drop events of a
\* session.
OnDropUpTo(files, max) ==
    /\ mpc = "mainloop"
    /\ n_drops < max
    /\ n_drops' = n_drops + 1
    /\ IF files # <<>>
       THEN /\ ui_log' = Append(ui_log, files)
            /\ task_queue' = QueuePut(task_queue, WorkItem(enq + 1, files))
            /\ enq' = enq + 1
       ELSE UNCHANGED <<ui_log, task_queue, enq>>
    /\ UNCHANGED <<args, fs, temps, mpc, discovery, model_loaded, bi, t,
                   stop_event, destroy_pending, wpc, w_item, collected, ci,
                   n_closes, log, result>>

OnDrop(files) == OnDropUpTo(files, MaxDrops)

OnCloseNoSignal ==
    /\ mpc = "mainloop"
    /\ n_closes < MaxCloses
    /\ n_closes' = n_closes + 1
    /\ destroy_pending' = TRUE
    /\ UNCHANGED <<args, fs, temps, mpc, discovery, model_loaded, bi, t, wpc,
                   w_item, collected, ci, n_drops, ui_log, log, result,
                   stop_event, task_queue, enq>>
\* Lines 297-300, on_close in the UI task.
OnClose ==
    /\ mpc = "mainloop"
    /\ n_closes < MaxCloses
    /\ n_closes' = n_closes + 1
    /\ stop_event' = TRUE
    /\ task_queue' = QueuePut(task_queue, Sentinel(enq + 1))
    /\ enq' = enq + 1
    /\ destroy_pending' = TRUE
    /\ UNCHANGED <<args, fs, temps, mpc, discovery, model_loaded, bi, t, wpc,
                   w_item, collected, ci, n_drops, ui_log, log, result>>

\* The scheduled root.destroy runs: root.mainloop() (line 307) returns.
RootDestroy ==
    /\ mpc = "mainloop"
    /\ destroy_pending
    /\ mpc' = "join"
    /\ destroy_pending' = FALSE
    /\ UNCHANGED <<args, fs, temps, discovery, model_loaded, bi, t, task_queue,
                   stop_event, wpc, w_item, collected, ci, enq, n_drops,
                   n_closes, ui_log, log, result>>

WorkerEnded == wpc \in {"done", "crashed", "killed"}

\* Line 308 and the return from main: join(timeout=1) returns when the worker
\* has ended or the timeout has passed; the process then exits, which ends a
\* daemon thread wherever it is.
MainJoin ==
    /\ mpc = "join"
    /\ mpc' = "exit0"
    /\ wpc' = IF WorkerEnded THEN wpc ELSE "killed"
    /\ UNCHANGED <<args, fs, temps, discovery, model_loaded, bi, t, task_queue,
                   stop_event, destroy_pending, w_item, collected, ci, enq,
                   n_drops, n_closes, ui_log, log, result>>

\* ------------------------------------------------------------ worker thread
WEv(ev, idx, path, out, info) == Ev(ev, "worker", w_item.id, idx, path, out, info)

WorkerLoopTestIgnoresStop ==
    /\ wpc = "loop"
    /\ wpc' = "get"
    /\ UNCHANGED <<args, fs, temps, mpc, discovery, model_loaded, bi, t,
                   task_queue, stop_event, destroy_pending, w_item, collected,
                   ci, enq, n_drops, n_closes, ui_log, log, result>>
\* Line 275: while not stop_event.is_set()
WorkerLoopTest ==
    /\ wpc = "loop"
    /\ wpc' = IF stop_event THEN "done" ELSE "get"
    /\ UNCHANGED <<args, fs, temps, mpc, discovery, model_loaded, bi, t,
                   task_queue, stop_event, destroy_pending, w_item, collected,
                   ci, enq, n_drops, n_closes, ui_log, log, result>>

\* Lines 276-283: task_queue.get(timeout=0.1). On an empty queue the timeout
\* passes and the loop continues; the sentinel ends the loop; a WorkItem goes
\* to process_inputs. The log notes whether the stop flag was set by then.
WorkerGet ==
    /\ wpc = "get"
    /\ IF task_queue = <<>>
       THEN /\ wpc' = "loop"
            /\ UNCHANGED <<task_queue, w_item, log>>
       ELSE LET g == QueueGet(task_queue) IN
            /\ task_queue' = g.rest
            /\ IF g.item.none
               THEN /\ wpc' = "done"
                    /\ log' = Append(log, Ev("sentinel", "worker", g.item.id, 0,
                                             NoOutput, NoOutput, ""))
                    /\ UNCHANGED w_item
               ELSE /\ wpc' = "process_inputs"
                    /\ w_item' = g.item
                    /\ log' = Append(log, Ev("dequeue", "worker", g.item.id, 0,
                                             NoOutput, NoOutput,
                                             IF stop_event THEN "after_stop" ELSE ""))
    /\ UNCHANGED <<args, fs, temps, mpc, discovery, model_loaded, bi, t,
                   stop_event, destroy_pending, collected, ci, enq, n_drops,
                   n_closes, ui_log, result>>

\* Lines 243-248: which exceptions of collect_media_paths process_inputs
\* handles ("reported": logged, shown, and the WorkItem is dropped).
CollectHandling(err) ==
    CASE err = "none" -> "proceed"
      [] err \in {"FileNotFoundError", "ValueError"} -> "reported"
      [] OTHER -> "propagates"

\* Lines 243-252, then 284 when process_inputs returns at once: discovery on
\* the WorkItem. An exception process_inputs does not handle leaves worker()
\* too and ends the thread.
WorkerProcessInputs ==
    /\ wpc = "process_inputs"
    /\ LET r == collect_media_paths(fs, w_item.files, args.recursive)
           h == CollectHandling(r.err) IN
       CASE h = "reported" ->
              /\ log' = log \o <<WEv("append_log", 0, NoOutput, NoOutput, r.err),
                                 WEv("showerror", 0, NoOutput, NoOutput, r.err)>>
              /\ wpc' = "loop"
              /\ UNCHANGED <<collected, ci>>
         [] h = "propagates" ->
              /\ wpc' = "crashed"
              /\ UNCHANGED <<collected, ci, log>>
         [] h = "proceed" /\ r.paths = <<>> ->
              /\ log' = Append(log, WEv("set_status", 0, NoOutput, NoOutput, "nothing"))
              /\ wpc' = "loop"
              /\ UNCHANGED <<collected, ci>>
         [] OTHER ->
              /\ collected' = r.paths
              /\ ci' = 1
              /\ wpc' = "next_file"
              /\ UNCHANGED log
    /\ UNCHANGED <<args, fs, temps, mpc, discovery, model_loaded, bi, t,
                   task_queue, stop_event, destroy_pending, w_item, enq,
                   n_drops, n_closes, ui_log, result>>

\* Lines 254-257, then 284 at the end of the list: the status is set and
\* transcribe_audio_file called on the next collected path.
WorkerFileStart ==
    /\ wpc = "next_file"
    /\ IF ci <= Len(collected)
       THEN /\ log' = Append(log, WEv("set_status", ci, collected[ci], NoOutput,
                                      "processing"))
            /\ t' = [t EXCEPT !["worker"] =
                        CallFrame(collected[ci], NoOutput, w_item.id, ci)]
            /\ wpc' = "in_call"
       ELSE /\ wpc' = "loop"
            /\ UNCHANGED <<t, log>>
    /\ UNCHANGED <<args, fs, temps, mpc, discovery, model_loaded, bi,
                   task_queue, stop_event, destroy_pending, w_item, collected,
                   ci, enq, n_drops, n_closes, ui_log, result>>

\* Lines 258-272: the reports process_inputs sends for one returned call.
FileReports(ret, idx, path) ==
    CASE ret.kind = "raise" ->
           <<WEv("append_log", idx, path, NoOutput, "file_error"),
             WEv("showerror", idx, path, NoOutput, "file_error")>>
      [] ret.kind = "path" ->
           <<WEv("append_log", idx, path, ret.path, "done"),
             WEv("set_status", idx, path, ret.path, "saved")>>
      [] OTHER -> <<>>

AfterFileNeverBreaks(ret, ignore_errors) == "continue"
\* Lines 258-268: an exception breaks the loop over the files when
\* ignore_errors is off; otherwise the loop goes on with the next file.
AfterFileReturn(ret, ignore_errors) ==
    IF ret.kind = "raise" /\ ~ignore_errors THEN "break" ELSE "continue"

\* Lines 257-272, then 284 after a break: the call returned or raised; an
\* exception is reported and, with ignore_errors off, ends process_inputs.
WorkerFileReturn ==
    /\ wpc = "in_call"
    /\ t["worker"].pc = "returned"
    /\ LET ret == t["worker"].ret IN
       /\ log' = log \o <<FrameEv("return", "worker", ret.path, ret.kind)>>
                     \o FileReports(ret, ci, t["worker"].path)
       /\ IF AfterFileReturn(ret, args.ignore_errors) = "break"
          THEN /\ wpc' = "loop"
               /\ UNCHANGED ci
          ELSE /\ wpc' = "next_file"
               /\ ci' = ci + 1
    /\ t' = [t EXCEPT !["worker"] = IdleFrame]
    /\ UNCHANGED <<args, fs, temps, mpc, discovery, model_loaded, bi,
                   task_queue, stop_event, destroy_pending, w_item, collected,
                   enq, n_drops, n_closes, ui_log, result>>

\* -------------------------------------------------------------- environment
\* The subtitle files another program may create while the run is under way.
AppearChoices == {dA_srt}

\* Another program creates a subtitle file that does not exist yet, at any
\* moment between main's discovery and the end of the run (one created
\* before discovery is part of the snapshot the run starts from).
SubtitleAppears(srt) ==
    /\ mpc \in {"validate", "load", "batch", "in_call", "launch", "mainloop", "join"}
    /\ srt \notin fs
    /\ fs' = fs \cup {srt}
    /\ UNCHANGED <<args, temps, mpc, discovery, model_loaded, bi, t, task_queue,
                   stop_event, destroy_pending, wpc, w_item, collected, ci, enq,
                   n_drops, n_closes, ui_log, log, result>>

EnvStep == \E srt \in AppearChoices : SubtitleAppears(srt)

\* ------------------------------------------------------------ specification
MainStep ==
    \/ MainDiscover
    \/ MainValidate
    \/ MainLoadModel
    \/ MainBatchNext
    \/ MainBatchReturn
    \/ MainLaunchGui

UiStep ==
    \/ \E files \in DropChoices : OnDrop(files)
    \/ OnClose
    \/ RootDestroy
    \/ MainJoin

PipelineStep(th) ==
    \/ T_EnsureWav(th)
    \/ T_EngineCall(th)
    \/ T_EngineReturn(th)
    \/ T_WriteSrt(th)

WorkerStep ==
    \/ WorkerLoopTest
    \/ WorkerGet
    \/ WorkerProcessInputs
    \/ WorkerFileStart
    \/ WorkerFileReturn
    \/ PipelineStep("worker")

Next ==
    \/ MainStep
    \/ PipelineStep("main")
    \/ UiStep
    \/ WorkerStep
    \/ EnvStep

Spec == Init /\ [][Next]_vars


\* ------------------------------------------------------- the session alone
\* The runs started with --gui and without an override, with up to
\* MaxSessionDrops drop events.
InitSession == Init /\ args.gui /\ args.output = NoOutput

NextSession ==
    \/ MainDiscover
    \/ MainValidate
    \/ MainLoadModel
    \/ MainLaunchGui
    \/ \E files \in DropChoices : OnDropUpTo(files, MaxSessionDrops)
    \/ OnClose
    \/ RootDestroy
    \/ MainJoin
    \/ WorkerStep
    \/ EnvStep

SpecSession == InitSession /\ [][NextSession]_vars

\* ------------------------------------------- collect_media_paths on its own
\* A direct call of collect_media_paths on any snapshot over the universe and
\* any list of at most MaxCollectInputs raw paths.
CollectRawPaths ==
    {DirD, DirS, DirLocked, dA_mp3, dA_WAV, dB_wav, dNotes, dsC_mp3, Nope}

InitCollect ==
    /\ args \in [inputs : SeqsUpTo(CollectRawPaths, MaxCollectInputs),
                 recursive : BOOLEAN, ignore_errors : {TRUE}, gui : {FALSE},
                 output : {NoOutput}]
    /\ fs \in SUBSET FileUniverse
    /\ temps = {}
    /\ mpc = "collect"
    /\ discovery = Pending
    /\ model_loaded = FALSE
    /\ bi = 0
    /\ t = [th \in Threads |-> IdleFrame]
    /\ task_queue = <<>>
    /\ stop_event = FALSE
    /\ destroy_pending = FALSE
    /\ wpc = "none"
    /\ w_item = NoItem
    /\ collected = <<>>
    /\ ci = 0
    /\ enq = 0
    /\ n_drops = 0
    /\ n_closes = 0
    /\ ui_log = <<>>
    /\ log = <<>>
    /\ result = Pending

CollectCall ==
    /\ mpc = "collect"
    /\ result' = collect_media_paths(fs, args.inputs, args.recursive)
    /\ mpc' = "returned"
    /\ UNCHANGED <<args, fs, temps, discovery, model_loaded, bi, t, task_queue,
                   stop_event, destroy_pending, wpc, w_item, collected, ci, enq,
                   n_drops, n_closes, ui_log, log>>

NextCollect == CollectCall

SpecCollect == InitCollect /\ [][NextCollect]_vars

\* The candidates collect_media_paths meets, in the order it meets them: each
\* input itself, or the listing of the directory it names.
CandidateStream ==
    Flatten([i \in 1..Len(args.inputs) |->
                IF isdir(args.inputs[i])
                THEN _iter_directory_files(fs, args.inputs[i], args.recursive).files
                ELSE <<args.inputs[i]>>])

FirstIndex(s, p) == CHOOSE i \in 1..Len(s) : s[i] = p /\ \A j \in 1..(i - 1) : s[j] # p

Returned == mpc = "returned" /\ result.err = "none"

\* C8: the list collect_media_paths returns holds no path string twice, and
\* its paths stand in the order in which they were first met over the inputs
\* and over each directory's listing.
C8_NoRepeatFirstSeenOrder ==
    Returned =>
        LET ps == result.paths
            cs == CandidateStream IN
        /\ \A i, j \in 1..Len(ps) : i # j => ps[i] # ps[j]
        /\ \A i \in 1..Len(ps) : ps[i] \in Range(cs)
        /\ \A i, j \in 1..Len(ps) :
              i < j => FirstIndex(cs, ps[i]) < FirstIndex(cs, ps[j])

\* A file given directly and again through its directory, and a directory
\* given twice, with more than one path returned.
C8_Witness ==
    /\ Returned
    /\ args.inputs \in {<<dA_mp3, DirD>>, <<DirD, dA_mp3>>, <<DirD, DirD>>}
    /\ Len(result.paths) >= 2
    /\ dA_mp3 \in Range(result.paths)

\* No input can make collect_media_paths raise: each exists, each directory
\* can be listed, each file has a media extension.
NothingToRaise ==
    \A i \in 1..Len(args.inputs) :
        LET p == args.inputs[i] IN
        /\ exists(fs, p)
        /\ isdir(p) => (args.recursive \/ p \notin Unreadable)
        /\ ~isdir(p) => is_media_file(p)

\* C9: collect_media_paths returns no path that has an adjacent same-stem
\* .srt at call time and no path without a media extension, from a directory
\* scan or given directly; a media file given directly that has an adjacent
\* .srt is left out without an exception.
C9_NoSubtitledNoForeign ==
    /\ Returned =>
          \A i \in 1..Len(result.paths) :
              /\ is_media_file(result.paths[i])
              /\ ~has_adjacent_srt(fs, result.paths[i])
    /\ (mpc = "returned" /\ NothingToRaise) => result.err = "none"

\* a.mp3 given directly beside a.srt, and its directory with b.wav: only
\* b.wav is returned.
C9_Witness ==
    /\ Returned
    /\ fs = {dA_mp3, dA_srt, dB_wav}
    /\ args.inputs = <<dA_mp3, DirD>>
    /\ args.recursive
    /\ result.paths = <<dB_wav>>


\* ------------------------------------------- format_srt_timestamp on its own
\* The times format_srt_timestamp is called on: whole seconds around the
\* minute and hour boundaries, fractions around the millisecond boundaries.
WholeSeconds == {0, 1, 59, 60, 3599, 3600, 3661, 86399, 360000}
Micros == {0, 400, 500, 600, 234400, 234500, 234600, 999400, 999500, 999600,
           999999}
\* The decimal inputs whole.micros, halfway between two milliseconds, whose
\* double computation lands above, or below, the exact value.
LeansAbove ==
    {<<59, 500>>, <<60, 500>>, <<3599, 500>>, <<3599, 234500>>, <<3600, 500>>,
     <<3600, 234500>>, <<3661, 500>>, <<3661, 234500>>, <<86399, 234500>>,
     <<86399, 999500>>, <<360000, 500>>, <<360000, 234500>>}
LeansBelow ==
    {<<1, 500>>, <<1, 234500>>, <<59, 234500>>, <<59, 999500>>, <<60, 234500>>,
     <<60, 999500>>, <<3599, 999500>>, <<3600, 999500>>, <<3661, 999500>>,
     <<86399, 500>>, <<360000, 999500>>}
Lean(whole, micros) ==
    IF <<whole, micros>> \in LeansAbove THEN 1
    ELSE IF <<whole, micros>> \in LeansBelow THEN -1 ELSE 0
Seconds(whole, micros) == Time(whole, micros, Lean(whole, micros))
TimeInputs == {Seconds(w, m) : w \in WholeSeconds, m \in Micros}

InitFormat ==
    /\ args \in [seconds : TimeInputs]
    /\ fs = {}
    /\ temps = {}
    /\ mpc = "format"
    /\ discovery = Pending
    /\ model_loaded = FALSE
    /\ bi = 0
    /\ t = [th \in Threads |-> IdleFrame]
    /\ task_queue = <<>>
    /\ stop_event = FALSE
    /\ destroy_pending = FALSE
    /\ wpc = "none"
    /\ w_item = NoItem
    /\ collected = <<>>
    /\ ci = 0
    /\ enq = 0
    /\ n_drops = 0
    /\ n_closes = 0
    /\ ui_log = <<>>
    /\ log = <<>>
    /\ result = <<>>

FormatCall ==
    /\ mpc = "format"
    /\ result' = format_srt_timestamp(args.seconds)
    /\ mpc' = "returned"
    /\ UNCHANGED <<args, fs, temps, discovery, model_loaded, bi, t, task_queue,
                   stop_event, destroy_pending, wpc, w_item, collected, ci, enq,
                   n_drops, n_closes, ui_log, log>>

NextFormat == FormatCall

SpecFormat == InitFormat /\ [][NextFormat]_vars

\* The characters after the comma of a formatted timestamp.
MillisField(str) ==
    LET comma == CHOOSE i \in 1..Len(str) : str[i] = "," IN
    SubSeq(str, comma + 1, Len(str))

\* C12 (as claimed): the milliseconds field of every formatted time has
\* exactly three digits; 0.0 is formatted as 00:00:00,000, 3661.2345 as
\* 01:01:01,234 and 0.9996 as 00:00:01,000.
C12_MillisecondCarry ==
    mpc = "returned" =>
        /\ Len(MillisField(result)) = 3
        /\ \A i \in 1..Len(MillisField(result)) :
              MillisField(result)[i] \in Range(Digit)
        /\ args.seconds = Seconds(0, 0) =>
              result = <<"0", "0", ":", "0", "0", ":", "0", "0", ",", "0", "0", "0">>
        /\ args.seconds = Seconds(3661, 234500) =>
              result = <<"0", "1", ":", "0", "1", ":", "0", "1", ",", "2", "3", "4">>
        /\ args.seconds = Seconds(0, 999600) =>
              result = <<"0", "0", ":", "0", "0", ":", "0", "1", ",", "0", "0", "0">>

\* ------------------------------------------------------- write_srt on its own
MaxSegments == 2    \* segments of one write_srt call

\* Times and texts of the segments: increasing times, one of them rounding
\* to a full second; a text may be empty.
SegmentTimes ==
    <<Seconds(0, 0), Seconds(0, 999600), Seconds(1, 234500), Seconds(3661, 234500)>>
Texts == {<<>>, <<"h", "i">>, <<"o", "k", "!">>}
Segments ==
    {Segment(SegmentTimes[ij[1]], SegmentTimes[ij[2]], x) :
        ij \in {p \in (1..Len(SegmentTimes)) \X (1..Len(SegmentTimes)) : p[1] <= p[2]},
        x \in Texts}

InitWrite ==
    /\ args \in [segments : SeqsUpTo(Segments, MaxSegments)]
    /\ fs = {}
    /\ temps = {}
    /\ mpc = "write"
    /\ discovery = Pending
    /\ model_loaded = FALSE
    /\ bi = 0
    /\ t = [th \in Threads |-> IdleFrame]
    /\ task_queue = <<>>
    /\ stop_event = FALSE
    /\ destroy_pending = FALSE
    /\ wpc = "none"
    /\ w_item = NoItem
    /\ collected = <<>>
    /\ ci = 0
    /\ enq = 0
    /\ n_drops = 0
    /\ n_closes = 0
    /\ ui_log = <<>>
    /\ log = <<>>
    /\ result = <<>>

\* write_srt(segments, output_path): result is the text of the file.
WriteCall ==
    /\ mpc = "write"
    /\ result' = Flatten(write_srt(args.segments))
    /\ fs' = {OutPath}
    /\ mpc' = "returned"
    /\ UNCHANGED <<args, temps, discovery, model_loaded, bi, t, task_queue,
                   stop_event, destroy_pending, wpc, w_item, collected, ci, enq,
                   n_drops, n_closes, ui_log, log>>

NextWrite == WriteCall

SpecWrite == InitWrite /\ [][NextWrite]_vars

\* The lines of a text: the runs of characters each newline ends.
RECURSIVE Lines(_, _)
Lines(str, line) ==
    IF str = <<>> THEN <<>>
    ELSE IF Head(str) = "\n" THEN <<line>> \o Lines(Tail(str), <<>>)
    ELSE Lines(Tail(str), Append(line, Head(str)))

Arrow == <<" ", "-", "-", ">", " ">>

\* C13: the file write_srt leaves for N segments has 4 * N lines; for each i
\* in 1..N the lines 4i-3 .. 4i are the decimal index i, the formatted start
\* and end of segment i around " --> ", the text of segment i unchanged, and
\* an empty line; the file ends with a newline; for N = 0 it is empty.
C13_BlocksInOrder ==
    mpc = "returned" =>
        LET segs == args.segments
            N == Len(segs)
            ls == Lines(result, <<>>) IN
        /\ Len(ls) = 4 * N
        /\ N = 0 => result = <<>>
        /\ N > 0 => result[Len(result)] = "\n"
        /\ \A i \in 1..N :
              /\ ls[4 * i - 3] = Decimal(i)
              /\ ls[4 * i - 2] = format_srt_timestamp(segs[i].boundaries[1])
                                  \o Arrow
                                  \o format_srt_timestamp(segs[i].boundaries[2])
              /\ ls[4 * i - 1] = segs[i].transcription
              /\ ls[4 * i] = <<>>

\* Two segments with different texts were written.
C13_Witness ==
    /\ mpc = "returned"
    /\ Len(args.segments) = 2
    /\ args.segments[1].transcription # args.segments[2].transcription
    /\ args.segments[1].transcription # <<>>
    /\ OutPath \in fs
    /\ Len(result) > 0

\* ------------------------------------------------------------ the pipeline
\* The worker's scheduling is fair: a thread that can take a step takes one.
FairSpec == Init /\ [][Next]_vars /\ WF_vars(WorkerStep)

Positions == DOMAIN log
BatchRun == ~args.gui
Scheduled == 1..Len(discovery.paths)

\* What the log says of file i of the batch.
EngineFailedAt(i) ==
    \E k \in Positions : /\ log[k].th = "main" /\ log[k].idx = i
                         /\ log[k].ev = "engine_ret" /\ log[k].info = "failed"
WrittenAt(i) ==
    \E k \in Positions : /\ log[k].th = "main" /\ log[k].idx = i
                         /\ log[k].ev = "write_srt" /\ log[k].info = "ok"
                         /\ log[k].out \in fs
CapturedAt(i) ==
    \E k \in Positions : /\ log[k].th = "main" /\ log[k].idx = i
                         /\ log[k].ev = "return" /\ log[k].info = "None"
TouchedAt(i) == \E k \in Positions : log[k].th = "main" /\ log[k].idx = i

EngineFailuresOnly ==
    \A k \in Positions : log[k].info \notin (FaultInfos \ {"failed"})

\* C1 (as claimed): once transcribe_audio_file has returned or raised, no
\* temporary audio file made for its media path exists.
C1_NoTempAfterCall ==
    \A th \in Threads :
        t[th].pc = "returned" => \A x \in temps : x.src # t[th].path

\* C2: in a batch run whose only failures are engine failures: with
\* ignore_errors on, the batch is never cut short, and when it has ended
\* every file the engine failed on has a captured failure and every other
\* scheduled file has its subtitle written; with ignore_errors off, nothing
\* is done for any file after the first one the engine failed on.
C2_EngineErrorIsolation ==
    (BatchRun /\ EngineFailuresOnly) =>
        /\ args.ignore_errors =>
              /\ mpc # "aborted"
              /\ mpc = "exit0" =>
                    \A i \in Scheduled :
                        IF EngineFailedAt(i) THEN CapturedAt(i) /\ ~WrittenAt(i)
                        ELSE WrittenAt(i)
        /\ ~args.ignore_errors =>
              \A i \in Scheduled :
                  EngineFailedAt(i) =>
                      /\ bi = i
                      /\ \A j \in Scheduled : j > i => ~TouchedAt(j)
                      /\ ~WrittenAt(i)

\* Three scheduled files, the engine failed on the second, the batch ended
\* with the first and the third written.
C2_Witness ==
    /\ BatchRun /\ EngineFailuresOnly /\ args.ignore_errors
    /\ mpc = "exit0"
    /\ Len(discovery.paths) = 3
    /\ EngineFailedAt(2) /\ CapturedAt(2)
    /\ WrittenAt(1) /\ WrittenAt(3)

\* The failures so far are of the three kinds: ffmpeg exiting non-zero, the
\* engine failing, the subtitle write failing.
ThreeKindsOnly == \A k \in Positions : log[k].info # "no_ffmpeg"

\* C3 (as claimed): in a batch run with ignore_errors on, whichever of the
\* three kinds of failure a file runs into, the batch goes on: when the run
\* has ended every scheduled file has been started.
C3_EveryFailureIsolated ==
    (BatchRun /\ args.ignore_errors /\ ThreeKindsOnly
        /\ mpc \in {"exit0", "aborted"}) =>
        bi = Len(discovery.paths)

\* An input that makes discovery fail: a path that does not exist, or a file
\* given directly whose extension is not a media extension.
Offending(p) == ~exists(fs, p) \/ (~isdir(p) /\ ~is_media_file(p))
HasOffendingInput == \E i \in 1..Len(args.inputs) : Offending(args.inputs[i])
DiscoveryFailed == discovery.err \in {"FileNotFoundError", "ValueError"}

\* C10: a run whose inputs hold a missing path or a directly given file with
\* an unrecognized extension never loads the engine, never starts a worker
\* and never touches a media file, and once discovery has failed the run has
\* ended with a usage error.
C10_DiscoveryFailureAborts ==
    /\ HasOffendingInput =>
          /\ ~model_loaded
          /\ log = <<>>
          /\ wpc = "none"
          /\ bi = 0
          /\ mpc \in {"start", "usage_error", "traceback"}
    /\ DiscoveryFailed => HasOffendingInput /\ mpc = "usage_error"

\* Discovery failed on the second input; the first is a media file that
\* could have been processed.
C10_Witness ==
    /\ DiscoveryFailed
    /\ Len(args.inputs) = 2
    /\ args.inputs[1] = dA_mp3
    /\ Offending(args.inputs[2])
    /\ mpc = "usage_error"

\* The calls of transcribe_audio_file that were handed the override: in the
\* batch loop every call is (line 476), in the session none (line 257).
OverrideWrites ==
    {k \in Positions : /\ log[k].ev = "write_srt"
                       /\ args.output # NoOutput
                       /\ log[k].out = args.output}
OverrideGiven == args.output # NoOutput

\* C11: with an output override, a run that has scheduled more than one file
\* ends in a usage error without loading the engine or touching a file, and
\* so does a run that asks for the interactive session; the override is the
\* output of at most one file of a run, and only of a run whose discovery
\* scheduled exactly one file.
C11_OverrideSingleFile ==
    /\ (OverrideGiven /\ Len(discovery.paths) > 1) =>
          /\ ~model_loaded /\ log = <<>> /\ bi = 0 /\ wpc = "none"
          /\ mpc \in {"validate", "usage_error"}
    /\ (OverrideGiven /\ args.gui) =>
          /\ ~model_loaded /\ log = <<>> /\ bi = 0 /\ wpc = "none"
          /\ mpc \in {"start", "validate", "usage_error"}
    /\ Cardinality(OverrideWrites) <= 1
    /\ \A th \in Threads :
          t[th].override # NoOutput =>
              th = "main" /\ Len(discovery.paths) = 1 /\ ~args.gui

\* Discovery scheduled two files, an override was given, and the run has
\* ended in a usage error.
C11_Witness ==
    /\ OverrideGiven /\ ~args.gui
    /\ discovery.err = "none"
    /\ Len(discovery.paths) >= 2
    /\ mpc = "usage_error"

\* Entries j and k of the log belong to the same call of
\* transcribe_audio_file: a call is known by its thread, its WorkItem and its
\* place in the list.
SameCall(j, k) ==
    /\ log[j].th = log[k].th /\ log[j].item = log[k].item
    /\ log[j].idx = log[k].idx
\* Where the subtitle of a call belongs: the override the batch loop passes,
\* else the media path with its extension replaced by .srt.
ExpectedSrt(th, path) ==
    IF th = "main" /\ args.output # NoOutput THEN args.output
    ELSE <<path[1], path[2], ".srt">>

\* C14: a call of transcribe_audio_file that returned None never opened a
\* subtitle file; a call that returned a path wrote the subtitle, once and to
\* the end, at that path, which is the override if one was passed and else
\* the media path's stem plus .srt, and the file exists.
C14_PathXorCapturedFailure ==
    LET allWrites == {j \in Positions : log[j].ev = "write_srt"} IN
    \A k \in Positions :
        log[k].ev = "return" =>
            LET writes == {j \in allWrites : SameCall(j, k)} IN
            /\ log[k].info = "None" => writes = {}
            /\ log[k].info = "path" =>
                  /\ log[k].out = ExpectedSrt(log[k].th, log[k].path)
                  /\ log[k].out \in fs
                  /\ Cardinality(writes) = 1
                  /\ \A j \in writes : /\ j < k
                                        /\ log[j].info = "ok"
                                        /\ log[j].out = log[k].out

\* One run in which a call returned None and another returned the path it
\* wrote.
C14_Witness ==
    /\ \E k \in Positions : log[k].ev = "return" /\ log[k].info = "None"
    /\ \E k \in Positions : log[k].ev = "return" /\ log[k].info = "path"

\* The calls of transcribe_audio_file on an input that ends in .wav, in any
\* case of the letters.
WavCalls == {k \in Positions : log[k].ev = "ensure_wav" /\ lower(log[k].path[3]) = ".wav"}

\* C15: for an input whose extension is .wav in any case, ensure_wav runs no
\* ffmpeg and makes no temporary file, and hands the input path itself to the
\* engine, marked not temporary; the input file still exists when the call
\* is over, whether it wrote the subtitle, the engine failed or the write
\* failed.
C15_WavPassThrough ==
    /\ \A k \in WavCalls : log[k].info = "wav" /\ log[k].path \in fs
    /\ \A x \in temps : lower(x.src[3]) # ".wav"
    /\ \A th \in Threads :
          (t[th].pc \in {"engine_call", "engine", "write_srt"}
              /\ lower(t[th].path[3]) = ".wav") =>
              /\ t[th].wav.temp = FALSE
              /\ t[th].wav.path = t[th].path

\* The call on d/a.WAV is over after the engine failed on it, and the file is
\* still there.
C15_Witness ==
    /\ dA_WAV \in fs
    /\ \E k \in Positions : /\ log[k].ev = "return" /\ log[k].path = dA_WAV
                             /\ log[k].info \in {"None", "raise"}
    /\ \E k \in Positions : /\ log[k].ev = "engine_ret" /\ log[k].path = dA_WAV
                             /\ log[k].info = "failed"

\* The subtitle files written to the end by thread th for WorkItem item (0 for
\* the batch), each with the media path it was written for.
WrittenBy(th, item) ==
    {<<log[k].path, log[k].out>> :
        k \in {i \in Positions : /\ log[i].th = th /\ log[i].item = item
                                  /\ log[i].ev = "write_srt" /\ log[i].info = "ok"}}

\* C20 (as claimed): without an override, no two different media paths of
\* one batch, or of one WorkItem, are written to the same subtitle path.
C20_NoSharedSubtitlePath ==
    args.output = NoOutput =>
        \A th \in Threads : \A item \in 0..enq :
            \A w1, w2 \in WrittenBy(th, item) : w1[1] # w2[1] => w1[2] # w2[2]


\* ------------------------------------------------------------- the session
EngineEvents == SelectSeq(log, LAMBDA e : e.ev \in {"engine_call", "engine_ret"})
Dequeues == SelectSeq(log, LAMBDA e : e.ev = "dequeue")

\* C4: in a session, WorkItems are taken in the order they were enqueued
\* (items are numbered by their put); engine calls do not overlap: each call
\* is followed by its own return before the next call, and the calls of an
\* earlier WorkItem all come before those of a later one; every engine call
\* is made by the worker thread, none by the UI task.
C4_OrderedSingleFlight ==
    args.gui =>
        LET ee == EngineEvents
            dq == Dequeues IN
        /\ \A i \in 1..(Len(dq) - 1) : dq[i].item < dq[i + 1].item
        /\ \A k \in 1..Len(ee) :
              /\ ee[k].th = "worker"
              /\ IF k % 2 = 1 THEN ee[k].ev = "engine_call"
                 ELSE /\ ee[k].ev = "engine_ret"
                      /\ ee[k].item = ee[k - 1].item
                      /\ ee[k].idx = ee[k - 1].idx
        /\ \A k \in 1..(Len(ee) - 1) : ee[k].item <= ee[k + 1].item
        /\ t["main"].pc = "idle"
        /\ Cardinality({th \in Threads : t[th].pc = "engine"}) <= 1

\* Two WorkItems were enqueued before the worker took the first, and the
\* engine has been called for both.
C4_Witness ==
    /\ args.gui
    /\ Len(Dequeues) = 2
    /\ \E k, l \in 1..Len(EngineEvents) :
          /\ EngineEvents[k].item = 1 /\ EngineEvents[k].ev = "engine_ret"
          /\ EngineEvents[l].item = 2 /\ EngineEvents[l].ev = "engine_ret"

\* What the log says of WorkItem j in the session.
RaisedIn(j) ==
    {k \in Positions : /\ log[k].th = "worker" /\ log[k].item = j
                       /\ log[k].ev = "return" /\ log[k].info = "raise"}
StartedIn(j) ==
    {log[k].idx : k \in {i \in Positions : /\ log[i].item = j
                                            /\ log[i].ev = "set_status"
                                            /\ log[i].info = "processing"}}
ReturnedIn(j) ==
    {log[k].idx : k \in {i \in Positions : /\ log[i].item = j
                                            /\ log[i].ev = "return"}}
\* The worker is through with the WorkItem it holds.
BackInLoop == wpc \in {"loop", "get", "done"}

\* C16: in a session with ignore_errors off, once a call of
\* transcribe_audio_file has raised, no later file of its WorkItem is
\* started and the worker is back in its loop, alive; a WorkItem taken after
\* that is processed in full: when the worker is through with it, every file
\* collected for it has been handed to transcribe_audio_file, unless one of
\* its own files raised.
C16_FatalErrorStopsItemOnly ==
    (args.gui /\ ~args.ignore_errors) =>
        \A k \in Positions :
            (log[k].th = "worker" /\ log[k].ev = "return" /\ log[k].info = "raise") =>
                /\ \A j \in Positions :
                      log[j].item = log[k].item => log[j].idx <= log[k].idx
                /\ w_item.id = log[k].item => (BackInLoop \/ wpc = "killed")
                /\ wpc # "crashed" \/ w_item.id > log[k].item
                /\ (w_item.id > log[k].item /\ BackInLoop
                        /\ StartedIn(w_item.id) # {} /\ RaisedIn(w_item.id) = {}) =>
                      ReturnedIn(w_item.id) = 1..Len(collected)

\* The first file of a WorkItem of two raised, the second was never
\* started; the next WorkItem was taken and its subtitle written.
C16_Witness ==
    /\ args.gui /\ ~args.ignore_errors
    /\ \E k \in RaisedIn(1) : log[k].idx = 1
    /\ \E k \in Positions : /\ log[k].ev = "dequeue" /\ log[k].item = 1
    /\ Len(discovery.paths) >= 2
    /\ w_item.id = 2 /\ BackInLoop
    /\ RaisedIn(2) = {} /\ ReturnedIn(2) # {}
    /\ ReturnedIn(2) = 1..Len(collected)

NoFaults == \A k \in Positions : log[k].info \notin FaultInfos
\* The subtitle of file idx of WorkItem j was written by the worker.
WorkerWrote(j, idx, path) ==
    \E k \in Positions :
        /\ log[k].th = "worker" /\ log[k].item = j /\ log[k].idx = idx
        /\ log[k].ev = "write_srt" /\ log[k].info = "ok"
        /\ log[k].path = path
        /\ log[k].out = <<path[1], path[2], ".srt">> /\ log[k].out \in fs
\* The worker has taken the WorkItem of the initial inputs and is through
\* with it (it is the first item put, when there are initial inputs).
InitialItemDone ==
    /\ args.gui /\ discovery.paths # <<>>
    /\ (w_item.id = 1 /\ BackInLoop) \/ w_item.id > 1

\* C17 (as claimed): in a run without failures, every path main's discovery
\* scheduled is transcribed and its subtitle written, whatever subtitle
\* files appear after that discovery: in a batch run by the end of the run,
\* in a session by the time the worker is through with the WorkItem of the
\* initial inputs.
C17_PointInTimeEverywhere ==
    (NoFaults /\ discovery.err = "none") =>
        /\ (BatchRun /\ mpc = "exit0") => \A i \in Scheduled : WrittenAt(i)
        /\ InitialItemDone =>
              \A i \in Scheduled :
                  \E idx \in Scheduled : WorkerWrote(1, idx, discovery.paths[i])

\* C17 (amended): the check is point-in-time for each discovery. In a batch
\* run without failures every path main's discovery scheduled has its
\* subtitle written, whatever appears meanwhile. In a session the worker
\* discovers each WorkItem again when it takes it: every path that discovery
\* collected has its subtitle written once the worker is through with the
\* WorkItem, whatever appears after it; an initial input is left out of the
\* collected list only if its subtitle file exists.
C17_PointInTimePerDiscovery ==
    (NoFaults /\ discovery.err = "none") =>
        /\ (BatchRun /\ mpc = "exit0") => \A i \in Scheduled : WrittenAt(i)
        /\ (args.gui /\ BackInLoop /\ StartedIn(w_item.id) # {}) =>
              \A idx \in 1..Len(collected) :
                  WorkerWrote(w_item.id, idx, collected[idx])
        /\ (args.gui /\ w_item.id = 1 /\ discovery.paths # <<>>
                /\ wpc \notin {"process_inputs", "killed"}) =>
              \A i \in Scheduled :
                  LET p == discovery.paths[i] IN
                  p \notin Range(collected) => <<p[1], p[2], ".srt">> \in fs

\* A batch run without failures whose first file found its subtitle file
\* already there when it opened it, and overwrote it: the file appeared
\* after discovery, which would have left the path out.
C17_Witness ==
    /\ BatchRun /\ NoFaults
    /\ \E k \in Positions : /\ log[k].ev = "write_srt" /\ log[k].th = "main"
                             /\ log[k].idx = 1 /\ log[k].existed
                             /\ log[k].info = "ok" /\ log[k].out \in AppearChoices

\* The WorkItems the worker took when the stop flag was already set.
TakenAfterStop ==
    {k \in Positions : log[k].ev = "dequeue" /\ log[k].info = "after_stop"}
CallInFlight == t["worker"].pc \in {"ensure_wav", "engine_call", "engine", "write_srt"}

\* C18: the worker takes at most one WorkItem once the stop flag is set; no
\* WorkItem put after a sentinel is ever taken: every WorkItem taken was put
\* before each sentinel still in the queue, and none is taken after the
\* worker took a sentinel; setting the flag leaves a call in flight alone:
\* while its call is in flight the worker is still inside it (or the process
\* has exited), and the worker leaves its loop only between WorkItems.
C18_AtMostOneAfterStop ==
    /\ Cardinality(TakenAfterStop) <= 1
    /\ \A k \in Positions :
          log[k].ev = "dequeue" =>
              /\ \A i \in 1..Len(task_queue) :
                    task_queue[i].none => log[k].item < task_queue[i].id
              /\ \A j \in Positions :
                    log[j].ev = "sentinel" => (k < j /\ log[k].item < log[j].item)
    /\ CallInFlight => wpc \in {"in_call", "killed"}
    /\ wpc = "done" => t["worker"].pc = "idle"

\* The stop flag was set after the worker's loop test and before its get: the
\* worker took one more WorkItem, called the engine for it, then left its
\* loop, and a WorkItem is still in the queue.
C18_Witness ==
    /\ TakenAfterStop # {}
    /\ \E k \in TakenAfterStop :
          \E j \in Positions : j > k /\ log[j].ev = "engine_ret"
    /\ wpc = "done"
    /\ \E i \in 1..Len(task_queue) : ~task_queue[i].none

QueuedWorkItems == {i \in 1..Len(task_queue) : ~task_queue[i].none}

\* C19 (as claimed): while stop has not been signalled no WorkItem is lost
\* or taken twice: the worker is alive as long as a WorkItem waits in the
\* queue, whatever the WorkItems before it ran into, and no WorkItem is
\* dequeued a second time.
C19_NoWorkItemLost ==
    /\ (n_closes = 0 /\ QueuedWorkItems # {}) => ~WorkerEnded
    /\ \A k, l \in 1..Len(Dequeues) :
          k # l => Dequeues[k].item # Dequeues[l].item

\* C5 (as claimed): no error raised while the worker handles a WorkItem ends
\* the worker thread.
C5_WorkerSurvivesErrors == wpc # "crashed"

\* C6 (as claimed): every call of transcribe_audio_file in the session that
\* ends in a failure, raised or captured, is followed at once by an error
\* report to the sink for that file.
C6_EveryFailureReported ==
    \A k \in Positions :
        (log[k].th = "worker" /\ log[k].ev = "return"
            /\ log[k].info \in {"None", "raise"}) =>
            /\ k < Len(log)
            /\ log[k + 1].ev = "append_log"
            /\ log[k + 1].info = "file_error"
            /\ log[k + 1].path = log[k].path

\* C7: once on_close has run (the stop flag is set and the sentinel has been
\* put), the worker thread ends: it leaves its loop, unless the process exits
\* first and takes the daemon thread with it.
C7_WorkerEndsAfterClose == (n_closes > 0) ~> WorkerEnded

\* The stop flag is set and the worker, which had called the engine, has
\* left its loop while the UI loop still runs.
C7_Witness ==
    /\ stop_event
    /\ wpc = "done"
    /\ \E k \in Positions : log[k].ev = "engine_ret"
    /\ mpc = "mainloop"

====
